---- MODULE Spec2Model ----
(***************************************************************************)
(* Model of trend_analyzer's per-ticker price cache                        *)
(* (trend_analyzer/data_loader.py, trend_analyzer/util.py), of the         *)
(* candidate fallback of trend_analyzer/run.py and of the walk-forward     *)
(* classifier of trend_analyzer/regime_model.py.                           *)
(*                                                                         *)
(* A series is a sequence of rows [date, close]; a cache file is the CSV   *)
(* text written by DataFrame.to_csv: a header and one line per row.  The   *)
(* data provider is the environment: it answers a download with any frame  *)
(* of at most MaxRows rows (possibly unsorted, with repeated dates or      *)
(* missing closes), or with nothing.                                       *)
(***************************************************************************)
EXTENDS Integers, Sequences, FiniteSets, TLC

VARIABLES
    cache,   \* cache_dir: file name -> CSV file, or NoFile
    today,   \* the calendar day of the run
    call,    \* the load_or_download_series call just made, or NoCall
    res,     \* the _try_load_candidates call in progress, or NoRes
    wf,      \* the walkforward_logistic_probabilities call in progress, or NoWf
    fn       \* the last call of a helper function with its result, or NoFn

vars == <<cache, today, call, res, wf, fn>>

----------------------------------------------------------------------------
(* Bounds and sample data *)

MaxDate == 2
MaxRows == 2
MaxCandidates == 2
WfDays == 5
MonthLen == 2
MaxMinDays == 2
MaxHorizon == 2
FwdReturnThresholdBp == -500
MaxScoreOver == 2
AlignRows == 3
MaxChars == 2
MaxFill == 2
FwdMaxDrawdownThresholdBp == -700

Dates == 1..MaxDate
Closes == {"100.0", "999.0"}
NaN == "NaN"

\* An optional date (start, end): None or Some(d).
None == <<>>
Some(d) == <<d>>

\* The configured ticker, as its characters ("^N", in the manner of ^NSEI).
Tickers == {<<"^", "N">>}

----------------------------------------------------------------------------
(* util.py *)

IsSafeChar(c) == c \in {"N", "A", "0", "_", "-"}
IsSpace(c) == c = " "

RECURSIVE LStrip(_)
LStrip(s) ==
    IF s # <<>> /\ IsSpace(Head(s)) THEN LStrip(Tail(s)) ELSE s

RECURSIVE RStrip(_)
RStrip(s) ==
    IF s # <<>> /\ IsSpace(s[Len(s)]) THEN RStrip(SubSeq(s, 1, Len(s) - 1)) ELSE s

Strip(s) == RStrip(LStrip(s))

\* re.sub(r"[^A-Za-z0-9_-]+", "_", s): every maximal run of other characters
\* becomes one underscore.
RECURSIVE ReSub(_, _)
ReSub(s, inRun) ==
    IF s = <<>> THEN <<>>
    ELSE IF IsSafeChar(Head(s)) THEN <<Head(s)>> \o ReSub(Tail(s), FALSE)
    ELSE IF inRun THEN ReSub(Tail(s), TRUE)
    ELSE <<"_">> \o ReSub(Tail(s), TRUE)

safe_filename(name) ==
    LET s == ReSub(Strip(name), FALSE)
    IN IF s = <<>> THEN <<"f", "i", "l", "e">> ELSE s

----------------------------------------------------------------------------
(* pandas helpers used by data_loader.py *)

Row(d, v) == [date |-> d, close |-> v]

DatesOf(rows) == {rows[i].date : i \in DOMAIN rows}
ValuesAt(rows, d) == {rows[i].close : i \in {j \in DOMAIN rows : rows[j].date = d}}

IsMonotonic(rows) ==
    \A i \in 1..(Len(rows) - 1) : rows[i].date <= rows[i + 1].date

\* sort_index(): an index that is already monotonic is returned as it is;
\* otherwise the rows are reordered by date, rows of equal date in an order
\* the sort algorithm decides.
sort_index(rows) ==
    IF IsMonotonic(rows) THEN {rows}
    ELSE {s \in {[i \in DOMAIN rows |-> rows[p[i]]] : p \in Permutations(DOMAIN rows)} :
            IsMonotonic(s)}

\* dropna(how="all") on the one-column close frame.
dropna(rows) == SelectSeq(rows, LAMBDA r : r.close # NaN)

\* DataFrame.to_csv(p, index=True): header Date,Close; a missing close is
\* written as an empty field.
CsvHeader == <<"Date", "Close">>
CsvLine(r) == <<r.date, IF r.close = NaN THEN "" ELSE r.close>>
to_csv(rows) == [exists |-> TRUE, header |-> CsvHeader, lines |-> [i \in DOMAIN rows |-> CsvLine(rows[i])]]

\* pd.read_csv(p, parse_dates=["Date"]): an empty field is read as NaN.
ParseLine(l) == Row(l[1], IF l[2] = "" THEN NaN ELSE l[2])
read_csv(file) == [i \in DOMAIN file.lines |-> ParseLine(file.lines[i])]

----------------------------------------------------------------------------
(* data_loader.py *)

RawRows == {Row(d, v) : d \in Dates, v \in Closes \cup {NaN}}

\* What yf.download hands back: any frame of at most MaxRows rows; the empty
\* frame stands for "None or empty" (line 46).
ProviderFrames == UNION {[1..n -> RawRows] : n \in 0..MaxRows}

Raised == [raised |-> TRUE, rows |-> <<>>]
Frame(rows) == [raised |-> FALSE, rows |-> rows]

\* The outcomes of download_daily_adj_close for a provider response: the
\* RuntimeError of line 47, or the sorted close frame without its missing rows.
download_daily_adj_close(raw) ==
    IF raw = <<>> THEN {Raised}
    ELSE {Frame(dropna(s)) : s \in sort_index(raw)}

\* Every answer the source can give to one download.
SourceAnswers == UNION {download_daily_adj_close(raw) : raw \in ProviderFrames}

cache_path(ticker) == safe_filename(ticker) \o <<".csv">>

Files == {cache_path(t) : t \in Tickers}

NoFile == [exists |-> FALSE, header |-> <<>>, lines |-> <<>>]

\* pd.read_csv raises on a file without the Date and Close columns (an empty
\* file has no columns to parse).
WellFormed(file) == file.header = CsvHeader

\* What an interrupted to_csv(p) leaves at p: the file is opened for writing,
\* which empties it, and the text is written front to back, so the path holds
\* nothing at all or the header and only the first lines.
TornFile == [exists |-> TRUE, header |-> <<>>, lines |-> <<>>]
PartialFiles(rows) ==
    {TornFile} \cup
    {[exists |-> TRUE, header |-> CsvHeader,
      lines |-> SubSeq(to_csv(rows).lines, 1, k)] : k \in 0..(Len(rows) - 1)}

\* Mutants of the line-86 test: the negation of refresh lost; refresh ignored.
UsesCacheOnRefresh(exists, refresh) == exists /\ refresh
UsesCacheAlways(exists, refresh) == exists

\* Line 86: the cache file is returned, and nothing is downloaded.
UsesCache(exists, refresh) == exists /\ ~refresh

\* Lines 87-90: the series read from the cache file.
ReadCached(file) == sort_index(read_csv(file))

\* Mutants of the write: rows of dates already cached are kept and only new
\* dates are added; the download is appended to the file; nothing is written.
StoredKeepsExisting(existing, s) ==
    LET old == read_csv(existing)
    IN to_csv(old \o SelectSeq(s, LAMBDA r : r.date \notin DatesOf(old)))
StoredAppends(existing, s) == to_csv(read_csv(existing) \o s)
StoredUnwritten(existing, s) == existing

\* Lines 93-96: the file at p after the download; to_csv replaces whatever
\* the path held.
StoredAfterFetch(existing, s) == to_csv(s)

\* Line 97: the series returned after the download.
ReturnedAfterFetch(existing, s) == s

\* No _try_load_candidates call and no walk-forward call is in progress.
NoRes == [state |-> "idle"]
NoWf == [state |-> "idle"]
NoFn == [op |-> "idle"]

NoCall ==
    [ticker |-> <<>>, end |-> None, refresh |-> FALSE, before |-> NoFile,
     source |-> Raised, fetches |-> 0, outcome |-> "idle", result |-> <<>>]

TypeOK ==
    /\ today \in Dates
    /\ DOMAIN cache = Files
    /\ call.outcome \in {"idle", "returned", "raised", "interrupted"}
    /\ call.fetches \in {0, 1}

Init ==
    /\ cache = [p \in Files |-> NoFile]
    /\ today = 1
    /\ fn = NoFn
    /\ call = NoCall
    /\ res = NoRes
    /\ wf = NoWf

\* The cache branch of load_or_download_series (lines 86-90).
LoadFromCache(ticker, end, refresh, close) ==
    LET p == cache_path(ticker) IN
    /\ UsesCache(cache[p].exists, refresh)
    /\ WellFormed(cache[p])
    /\ \E s \in ReadCached(cache[p]) :
         call' = [ticker |-> ticker, end |-> end, refresh |-> refresh,
                  before |-> cache[p], source |-> close, fetches |-> 0,
                  outcome |-> "returned", result |-> s]
    /\ UNCHANGED <<cache, today>>

\* The cache branch when the file does not parse (line 87 raises).
LoadMalformed(ticker, end, refresh, close) ==
    LET p == cache_path(ticker) IN
    /\ UsesCache(cache[p].exists, refresh)
    /\ ~WellFormed(cache[p])
    /\ call' = [ticker |-> ticker, end |-> end, refresh |-> refresh,
                before |-> cache[p], source |-> close, fetches |-> 0,
                outcome |-> "raised", result |-> <<>>]
    /\ UNCHANGED <<cache, today>>

\* The download raises (line 92): the exception leaves load_or_download_series.
LoadRaisesTruncates(ticker, end, refresh, close) ==
    LET p == cache_path(ticker) IN
    /\ ~UsesCache(cache[p].exists, refresh)
    /\ close.raised
    /\ call' = [ticker |-> ticker, end |-> end, refresh |-> refresh,
                before |-> cache[p], source |-> close, fetches |-> 1,
                outcome |-> "raised", result |-> <<>>]
    /\ cache' = [cache EXCEPT ![p] = TornFile]
    /\ UNCHANGED today

LoadRaises(ticker, end, refresh, close) ==
    LET p == cache_path(ticker) IN
    /\ ~UsesCache(cache[p].exists, refresh)
    /\ close.raised
    /\ call' = [ticker |-> ticker, end |-> end, refresh |-> refresh,
                before |-> cache[p], source |-> close, fetches |-> 1,
                outcome |-> "raised", result |-> <<>>]
    /\ UNCHANGED <<cache, today>>

\* The download branch (lines 92-97).
LoadDownloads(ticker, end, refresh, close) ==
    LET p == cache_path(ticker) IN
    /\ ~UsesCache(cache[p].exists, refresh)
    /\ ~close.raised
    /\ cache' = [cache EXCEPT ![p] = StoredAfterFetch(cache[p], close.rows)]
    /\ call' = [ticker |-> ticker, end |-> end, refresh |-> refresh,
                before |-> cache[p], source |-> close, fetches |-> 1,
                outcome |-> "returned",
                result |-> ReturnedAfterFetch(cache[p], close.rows)]
    /\ UNCHANGED today

\* The download branch when the process is stopped inside to_csv (line 96).
WriteInterrupted(ticker, end, refresh, close) ==
    LET p == cache_path(ticker) IN
    /\ ~UsesCache(cache[p].exists, refresh)
    /\ ~close.raised
    /\ \E f \in PartialFiles(close.rows) : cache' = [cache EXCEPT ![p] = f]
    /\ call' = [ticker |-> ticker, end |-> end, refresh |-> refresh,
                before |-> cache[p], source |-> close, fetches |-> 1,
                outcome |-> "interrupted", result |-> <<>>]
    /\ UNCHANGED today

\* One call of load_or_download_series; close is what the source answers (or
\* would answer) to the download of this call.
load_or_download_series ==
    /\ call = NoCall
    /\ \E ticker \in Tickers, end \in {None} \cup {Some(d) : d \in Dates},
          refresh \in BOOLEAN, close \in SourceAnswers :
           \/ LoadFromCache(ticker, end, refresh, close)
           \/ LoadRaises(ticker, end, refresh, close)
           \/ LoadDownloads(ticker, end, refresh, close)
    /\ UNCHANGED <<res, wf, fn>>

\* The caller takes the result; the next call can start.
Return ==
    /\ call # NoCall
    /\ call' = NoCall
    /\ UNCHANGED <<cache, today, res, wf, fn>>

\* Between runs the calendar moves on.
NextDay ==
    /\ call = NoCall
    /\ today < MaxDate
    /\ today' = today + 1
    /\ UNCHANGED <<cache, call, res, wf, fn>>

Next == load_or_download_series \/ Return \/ NextDay

Spec == Init /\ [][Next]_vars

\* Runs that can be stopped in the middle of the cache write, and later runs
\* over what such a stop left behind.
LoadWithInterrupts ==
    /\ call = NoCall
    /\ \E ticker \in Tickers, end \in {None} \cup {Some(d) : d \in Dates},
          refresh \in BOOLEAN, close \in SourceAnswers :
           \/ LoadFromCache(ticker, end, refresh, close)
           \/ LoadMalformed(ticker, end, refresh, close)
           \/ LoadRaises(ticker, end, refresh, close)
           \/ LoadDownloads(ticker, end, refresh, close)
           \/ WriteInterrupted(ticker, end, refresh, close)
    /\ UNCHANGED <<res, wf, fn>>

NextCrash == LoadWithInterrupts \/ Return \/ NextDay

SpecCrash == Init /\ [][NextCrash]_vars

----------------------------------------------------------------------------
(* run.py: _try_load_candidates *)

\* Candidate tickers and the lists a configuration can give.
ResTickers == {<<"^", "N">>, <<"A">>}
CandidateLists == UNION {[1..n -> ResTickers] : n \in 0..MaxCandidates}
ResFiles == {cache_path(t) : t \in ResTickers}

\* The cache files a run can find: none, one stopped in the write, one written
\* from an empty frame, one with a row.
ResInitFiles == {NoFile, TornFile, to_csv(<<>>), to_csv(<<Row(1, "100.0")>>)}

\* The answers of the source in these runs: an error, a frame whose closes
\* were all missing, a frame with one row.
ResAnswers == {Raised, Frame(<<>>), Frame(<<Row(1, "999.0")>>)}

NoCandidatesAbsent(required) == "absent"

\* Lines 37-40: no candidates configured.
NoCandidatesOutcome(required) == IF required THEN "raised" ELSE "absent"

UsableAlways(s) == TRUE

\* Line 51: s is not None and not s.dropna().empty.
Usable(s) == dropna(s) # <<>>

ExhaustedAbsent(required) == "absent"

\* Lines 56-59: every candidate failed.
ExhaustedOutcome(required) == IF required THEN "raised" ELSE "absent"

ResInit ==
    /\ cache \in [ResFiles -> ResInitFiles]
    /\ today = 1
    /\ fn = NoFn
    /\ call = NoCall
    /\ res = NoRes
    /\ wf = NoWf

\* Entry of _try_load_candidates (lines 27-41).
TryLoadStart ==
    /\ res = NoRes
    /\ \E candidates \in CandidateLists, required \in BOOLEAN, refresh \in BOOLEAN,
          end \in {None} \cup {Some(d) : d \in Dates} :
         res' = [state |-> IF candidates = <<>> THEN NoCandidatesOutcome(required)
                           ELSE "running",
                 name |-> "x", candidates |-> candidates, required |-> required,
                 refresh |-> refresh, end |-> end, pos |-> 1, attempts |-> <<>>,
                 result |-> [name |-> "", rows |-> <<>>], cache0 |-> cache]
    /\ UNCHANGED <<cache, today, call, wf, fn>>

\* One turn of the loop of lines 42-55 and, after the last candidate, lines
\* 56-59.
TryCandidate ==
    /\ res.state = "running"
    /\ LET t == res.candidates[res.pos]
           p == cache_path(t)
       IN /\ \E close \in ResAnswers :
               \/ LoadFromCache(t, res.end, res.refresh, close)
               \/ LoadMalformed(t, res.end, res.refresh, close)
               \/ LoadRaises(t, res.end, res.refresh, close)
               \/ LoadDownloads(t, res.end, res.refresh, close)
          /\ LET attempt == [ticker |-> t, before |-> cache[p], after |-> cache'[p],
                             outcome |-> call'.outcome, rows |-> call'.result,
                             fetches |-> call'.fetches]
                 accepted == call'.outcome = "returned" /\ Usable(call'.result)
                 last == res.pos = Len(res.candidates)
             IN res' = [res EXCEPT
                          !.attempts = Append(@, attempt),
                          !.pos = IF accepted THEN @ ELSE @ + 1,
                          !.state = IF accepted THEN "returned"
                                    ELSE IF last THEN ExhaustedOutcome(res.required)
                                    ELSE "running",
                          !.result = IF accepted
                                     THEN [name |-> res.name, rows |-> call'.result]
                                     ELSE @]
    /\ UNCHANGED <<wf, fn>>

NextRes == TryLoadStart \/ TryCandidate

SpecRes == ResInit /\ [][NextRes]_vars

----------------------------------------------------------------------------
(* data_loader.py: one cache directory shared by several tickers *)

\* Ticker strings of a configuration: two of them differ only in a character
\* that safe_filename replaces.
IsoTickers == {<<"^", "N">>, <<"_", "N">>, <<"A">>}
IsoFiles == {cache_path(t) : t \in IsoTickers}

IsoInit ==
    /\ cache \in [IsoFiles -> ResInitFiles]
    /\ today = 1
    /\ fn = NoFn
    /\ call = NoCall
    /\ res = NoRes
    /\ wf = NoWf

\* One call of load_or_download_series for one of the tickers; res keeps the
\* directory as it was when the call was made.
IsoLoad ==
    /\ call = NoCall
    /\ \E ticker \in IsoTickers, end \in {None} \cup {Some(d) : d \in Dates},
          refresh \in BOOLEAN, close \in ResAnswers :
         \/ LoadFromCache(ticker, end, refresh, close)
         \/ LoadMalformed(ticker, end, refresh, close)
         \/ LoadRaises(ticker, end, refresh, close)
         \/ LoadDownloads(ticker, end, refresh, close)
    /\ res' = [state |-> "direct", cache0 |-> cache]
    /\ UNCHANGED <<wf, fn>>

NextIso == IsoLoad

SpecIso == IsoInit /\ [][NextIso]_vars

----------------------------------------------------------------------------
(* regime_model.py: walkforward_logistic_probabilities *)

\* Dates are day numbers; a month is MonthLen days and ends on a multiple of
\* MonthLen.  Labels are "0", "1" or NaN.
WfDates == 1..WfDays
Labels == {"0", "1"}
MonthOf(d) == (d - 1) \div MonthLen + 1
MinOf(S) == CHOOSE d \in S : \A e \in S : d <= e
MaxOf(S) == CHOOSE d \in S : \A e \in S : d >= e

\* Lines 41-43: X.resample(freq).last().index, one label per month from the
\* month of the first row to the month of the last, each the month's end.
RetrainDates(idx) ==
    IF idx = {} THEN <<>>
    ELSE [k \in 1..(MonthOf(MaxOf(idx)) - MonthOf(MinOf(idx)) + 1) |->
              (MonthOf(MinOf(idx)) + k - 1) * MonthLen]

\* Line 71.
NextEnd(idx, i) ==
    IF i + 1 <= Len(RetrainDates(idx)) THEN RetrainDates(idx)[i + 1] ELSE MaxOf(idx)

PredictMaskOpenEnded(idx, train_end, next_end) == {d \in idx : d > train_end}

PredictMaskFromBoundary(idx, train_end, next_end) ==
    {d \in idx : d >= train_end /\ d <= next_end}

HasMinHistoryAnyLength(train_index, train_end, minDays) == train_index # {}

\* Line 72.
PredictMask(idx, train_end, next_end) ==
    {d \in idx : d > train_end /\ d <= next_end}

TrainMaskAnyDate(idx, y, train_end) == {d \in idx : y[d] # NaN}

\* Line 76.
TrainMask(idx, y, train_end) == {d \in idx : d <= train_end /\ y[d] # NaN}

\* Lines 63-67, the history required counted in days.
has_min_history(train_index, train_end, minDays) ==
    IF train_index = {} THEN FALSE
    ELSE MinOf(train_index) <= train_end - minDays

\* Line 85: y_train.nunique(dropna=True).
NUnique(y, train) == Cardinality({y[d] : d \in train})

BothClassesAlways(y, train) == TRUE

\* Lines 85-86.
BothClasses(y, train) == ~(NUnique(y, train) < 2)

\* Lines 88 and 91: the estimator pipeline rejects a matrix holding an
\* infinite value with an exception; the imputer fills missing ones.
FitRaises(finite, train) == \E d \in train : ~finite[d]
PredictRaises(finite, window) == \E d \in window : ~finite[d]

\* What one turn of the loop of lines 69-92 does at boundary i.
BoundaryOutcome(w, i) ==
    LET train_end == RetrainDates(w.idx)[i]
        window == PredictMask(w.idx, train_end, NextEnd(w.idx, i))
        train == TrainMask(w.idx, w.y, train_end)
    IN IF window = {} THEN "no_window"
       ELSE IF ~has_min_history(train, train_end, w.minDays) THEN "no_history"
       ELSE IF ~BothClasses(w.y, train) THEN "one_class"
       ELSE IF FitRaises(w.finite, train) THEN "fit_raised"
       ELSE IF PredictRaises(w.finite, window) THEN "predict_raised"
       ELSE "fitted"

\* The decision value of a fitted model in the abstraction: the intercept
\* follows the balance of the classes in the training labels.
Logit(y, train) ==
    Cardinality({d \in train : y[d] = "1"}) - Cardinality({d \in train : y[d] = "0"})

decision_function(z) == 1000 * z

\* Line 91: predict_proba(...)[:, 1], the logistic function of the decision
\* value (here to base 2, in thousandths, rounded down).
predict_proba(z) == (1000 * 2^(z + WfDays + 1)) \div (2^(z + WfDays + 1) + 2^(WfDays + 1))

OutcomeRaisedWithoutBoundaries == "raised"

\* Lines 44-45: no retrain date, the empty timeline is returned.
OutcomeWithoutBoundaries == "returned"

\* Feature rows: every value finite, or one row holding an infinite value.
FiniteFlags(idx) ==
    {[d \in idx |-> TRUE]} \cup {[d \in idx |-> d # e] : e \in idx}

WalkCall(idx, y, finite, minDays, px, h) ==
    [state |-> "running", idx |-> idx, y |-> y, finite |-> finite,
     minDays |-> minDays, px |-> px, h |-> h, i |-> 1,
     probs |-> [d \in idx |-> None], p |-> [d \in idx |-> None], log |-> <<>>]

\* A call with any label series on the index of X (lines 35-39).
WalkInit ==
    /\ cache = [f \in Files |-> NoFile]
    /\ today = 1
    /\ fn = NoFn
    /\ call = NoCall
    /\ res = NoRes
    /\ \E idx \in SUBSET WfDates :
         \E y \in [idx -> Labels \cup {NaN}], finite \in FiniteFlags(idx),
            minDays \in 0..MaxMinDays :
             wf = WalkCall(idx, y, finite, minDays, [d \in idx |-> 0], 0)

\* One turn of the loop of lines 69-92.
WalkBoundary ==
    /\ wf.state = "running"
    /\ wf.i <= Len(RetrainDates(wf.idx))
    /\ LET train_end == RetrainDates(wf.idx)[wf.i]
           window == PredictMask(wf.idx, train_end, NextEnd(wf.idx, wf.i))
           train == TrainMask(wf.idx, wf.y, train_end)
           outcome == BoundaryOutcome(wf, wf.i)
       IN wf' = [wf EXCEPT
                   !.log = Append(@, [b |-> train_end, window |-> window,
                                      train |-> train, outcome |-> outcome]),
                   !.probs = IF outcome = "fitted"
                             THEN [d \in wf.idx |->
                                      IF d \in window THEN Some(train_end) ELSE @[d]]
                             ELSE @,
                   !.p = IF outcome = "fitted"
                         THEN [d \in wf.idx |->
                                  IF d \in window
                                  THEN Some(predict_proba(Logit(wf.y, train)))
                                  ELSE @[d]]
                         ELSE @,
                   !.state = IF outcome \in {"fit_raised", "predict_raised"}
                             THEN "raised" ELSE @,
                   !.i = @ + 1]
    /\ UNCHANGED <<cache, today, call, res, fn>>

\* Lines 44-45 and 96.
WalkReturn ==
    /\ wf.state = "running"
    /\ wf.i > Len(RetrainDates(wf.idx))
    /\ wf' = [wf EXCEPT !.state = IF Len(RetrainDates(wf.idx)) = 0
                                   THEN OutcomeWithoutBoundaries
                                   ELSE "returned"]
    /\ UNCHANGED <<cache, today, call, res, fn>>

NextWalk == WalkBoundary \/ WalkReturn

SpecWalk == WalkInit /\ [][NextWalk]_vars

----------------------------------------------------------------------------
(* run.py, indicators.py: the labels main() hands to the classifier *)

\* Two price levels a tenth apart; ratios are kept in basis points.
PxLevels == {90, 100}
Pos(idx, d) == Cardinality({e \in idx : e <= d})
DateAt(idx, k) == CHOOSE d \in idx : Pos(idx, d) = k

\* price.shift(-n) at date d: the price n rows later, missing past the end.
Shift(price, idx, d, n) ==
    IF Pos(idx, d) + n <= Cardinality(idx)
    THEN Some(price[DateAt(idx, Pos(idx, d) + n)])
    ELSE None

\* indicators.py lines 50-51.
forward_return(price, idx, horizon_days) ==
    [d \in idx |->
        LET later == Shift(price, idx, d, horizon_days) IN
        IF later = None THEN None
        ELSE Some(((later[1] - price[d]) * 10000) \div price[d])]

\* indicators.py lines 54-63.
forward_max_drawdown(price, idx, horizon_days) ==
    [d \in idx |->
        LET future(i) == Shift(price, idx, d, i)
            seen == {i \in 0..horizon_days : future(i) # None}
            running_max(j) ==
                LET upto == {future(i)[1] : i \in {k \in seen : k <= j}}
                IN CHOOSE m \in upto : \A v \in upto : m >= v
            dd == {((future(j)[1] - running_max(j)) * 10000) \div running_max(j) :
                       j \in seen}
            fmdd == CHOOSE m \in dd : \A v \in dd : m <= v
        IN IF Shift(price, idx, d, horizon_days) = None THEN None ELSE Some(fmdd)]

\* run.py lines 218-221.
risk_off(price, idx, horizon_days) ==
    LET fwd_ret == forward_return(price, idx, horizon_days)
        fwd_mdd == forward_max_drawdown(price, idx, horizon_days)
    IN [d \in idx |->
           IF fwd_ret[d] = None \/ fwd_mdd[d] = None THEN NaN
           ELSE IF \/ fwd_ret[d][1] < FwdReturnThresholdBp
                   \/ fwd_mdd[d][1] < FwdMaxDrawdownThresholdBp
                THEN "1" ELSE "0"]

\* main(): labels from the whole price history, then the classifier
\* (run.py lines 216-250).
PipeInit ==
    /\ cache = [f \in Files |-> NoFile]
    /\ today = 1
    /\ fn = NoFn
    /\ call = NoCall
    /\ res = NoRes
    /\ \E idx \in SUBSET WfDates :
         \E px \in [idx -> PxLevels], h \in 1..MaxHorizon,
            finite \in FiniteFlags(idx), minDays \in 0..MaxMinDays :
             wf = WalkCall(idx, risk_off(px, idx, h), finite, minDays, px, h)

SpecPipe == PipeInit /\ [][NextWalk]_vars

----------------------------------------------------------------------------
(* data_loader.py: align_series *)

\* The table of line 104: one row per date, in any order, with columns a and
\* b; a cell is missing (None) or observed, and an observed cell holds a
\* value of its own, written as its date.
AlignCols == {"a", "b"}
AlignFrames ==
    UNION {{[i \in 1..n |-> [date |-> q[i],
                             a |-> IF q[i] \in A THEN Some(q[i]) ELSE None,
                             b |-> IF q[i] \in B THEN Some(q[i]) ELSE None]] :
               q \in Permutations(1..n), A \in SUBSET (1..n), B \in SUBSET (1..n)} :
           n \in 0..AlignRows}

RECURSIVE Pad(_, _, _, _)
\* Forward fill of one column with a limit: `last` is the last observed
\* value, `run` the number of missing cells met since.
Pad(cells, limit, last, run) ==
    IF cells = <<>> THEN <<>>
    ELSE LET c == Head(cells) IN
         IF c # None THEN <<c>> \o Pad(Tail(cells), limit, c, 0)
         ELSE IF last # None /\ run < limit
              THEN <<last>> \o Pad(Tail(cells), limit, last, run + 1)
              ELSE <<None>> \o Pad(Tail(cells), limit, last, run + 1)

FfillUnlimited(df, limit) ==
    LET a == Pad([i \in DOMAIN df |-> df[i].a], Len(df), None, 0)
        b == Pad([i \in DOMAIN df |-> df[i].b], Len(df), None, 0)
    IN [i \in DOMAIN df |-> [date |-> df[i].date, a |-> a[i], b |-> b[i]]]

\* DataFrame.ffill(limit=limit), column by column.
ffill(df, limit) ==
    LET a == Pad([i \in DOMAIN df |-> df[i].a], limit, None, 0)
        b == Pad([i \in DOMAIN df |-> df[i].b], limit, None, 0)
    IN [i \in DOMAIN df |-> [date |-> df[i].date, a |-> a[i], b |-> b[i]]]

\* Lines 105-111; a limit of None counts as 0.
align_series(series_map, max_forward_fill_days) ==
    LET df == CHOOSE s \in sort_index(series_map) : TRUE IN
    IF max_forward_fill_days > 0 THEN ffill(df, max_forward_fill_days) ELSE df

AlignSeries ==
    /\ fn = NoFn
    /\ \E series_map \in AlignFrames, limit \in (0 - 1)..MaxFill :
         fn' = [op |-> "align_series", series_map |-> series_map, limit |-> limit,
                out |-> align_series(series_map, limit)]
    /\ UNCHANGED <<cache, today, call, res, wf>>

NextAlign == AlignSeries

SpecAlign == Init /\ [][NextAlign]_vars

----------------------------------------------------------------------------
(* run.py: _as_candidates *)

\* Configuration values: None, a string, a list, or anything else (a
\* mapping, a number).  A list entry is a scalar (str, int, float) with its
\* str() text, or something that is not one (None, a mapping, a list).
CfgChars == {" ", "A", "N"}
CfgStrings == UNION {[1..n -> CfgChars] : n \in 0..MaxChars}
CfgEntries ==
    {[scalar |-> TRUE, text |-> s] : s \in CfgStrings}
        \cup {[scalar |-> FALSE, text |-> <<>>]}
CfgLists == UNION {[1..n -> CfgEntries] : n \in 0..MaxCandidates}
CfgValues ==
    {[kind |-> "none", s |-> <<>>, items |-> <<>>],
     [kind |-> "other", s |-> <<>>, items |-> <<>>]}
        \cup {[kind |-> "str", s |-> s, items |-> <<>>] : s \in CfgStrings}
        \cup {[kind |-> "list", s |-> <<>>, items |-> l] : l \in CfgLists}

\* Line 23: the entries kept from a list.
KeptEntry(x) == x.scalar /\ Strip(x.text) # <<>>

\* Lines 17-24.
_as_candidates(v) ==
    IF v.kind = "none" THEN <<>>
    ELSE IF v.kind = "str" THEN <<v.s>>
    ELSE IF v.kind = "list"
         THEN LET kept == SelectSeq(v.items, KeptEntry)
              IN [i \in DOMAIN kept |-> kept[i].text]
    ELSE <<>>

AsCandidates ==
    /\ fn = NoFn
    /\ \E v \in CfgValues :
         fn' = [op |-> "_as_candidates", v |-> v, out |-> _as_candidates(v)]
    /\ UNCHANGED <<cache, today, call, res, wf>>

NextCand == AsCandidates

SpecCand == Init /\ [][NextCand]_vars

----------------------------------------------------------------------------
(* scoring.py: score_to_label *)

\* Scores are kept in thousandths: every half point from a little below 0 to
\* a little above 100, and the value just under each band edge.
BandEdges == {20, 40, 60, 80}
Scores ==
    {k * 500 : k \in (0 - MaxScoreOver)..(200 + MaxScoreOver)}
        \cup {e * 1000 - 1 : e \in BandEdges}

ScoreToLabelUpperInclusive(score) ==
    IF score <= 20 * 1000 THEN "oversold_panic"
    ELSE IF score <= 40 * 1000 THEN "bearish_below_trend"
    ELSE IF score <= 60 * 1000 THEN "neutral_fair_vs_trend"
    ELSE IF score <= 80 * 1000 THEN "bullish_overboughtish"
    ELSE "euphoric_very_overbought"

\* Lines 9-18.
score_to_label(score) ==
    IF score < 20 * 1000 THEN "oversold_panic"
    ELSE IF score < 40 * 1000 THEN "bearish_below_trend"
    ELSE IF score < 60 * 1000 THEN "neutral_fair_vs_trend"
    ELSE IF score < 80 * 1000 THEN "bullish_overboughtish"
    ELSE "euphoric_very_overbought"

\* A call of score_to_label; the call before it is kept for comparison.
ScoreToLabel ==
    /\ fn = NoFn \/ (fn.op = "score_to_label" /\ fn.prev = <<>>)
    /\ \E score \in Scores :
         fn' = [op |-> "score_to_label", score |-> score,
                label |-> score_to_label(score),
                prev |-> IF fn = NoFn THEN <<>> ELSE <<fn.score, fn.label>>]
    /\ UNCHANGED <<cache, today, call, res, wf>>

NextLabel == ScoreToLabel

SpecLabel == Init /\ [][NextLabel]_vars

----------------------------------------------------------------------------
(* Properties of one load_or_download_series call, read off the call record *)

\* The start date of the configuration: the first date the source has.
ConfigStart == MinOf(Dates)

\* Line 92: the start handed to download_daily_adj_close.
FetchStart(start, existing) == start

Called == call.outcome # "idle"
CallFile == cache[cache_path(call.ticker)]
BeforeRows == read_csv(call.before)
StoredRows == read_csv(CallFile)
SourceRows == call.source.rows
FetchSucceeded == call.fetches = 1 /\ ~call.source.raised

LastDate(rows) == CHOOSE d \in DatesOf(rows) : \A e \in DatesOf(rows) : e <= d
EffectiveEnd == IF call.end = None THEN today ELSE call.end[1]
HasCache == call.before.exists /\ BeforeRows # <<>>
CacheCovers == HasCache /\ LastDate(BeforeRows) >= EffectiveEnd
CacheStale == HasCache /\ LastDate(BeforeRows) < EffectiveEnd

StrictlyAscending(rows) ==
    \A i \in 1..(Len(rows) - 1) : rows[i].date < rows[i + 1].date

Overlap == DatesOf(BeforeRows) \cap DatesOf(SourceRows)
Restated(d) == ValuesAt(BeforeRows, d) \cap ValuesAt(SourceRows, d) = {}

IncrementalMerge ==
    (Called /\ ~call.refresh /\ CacheStale /\ ~call.source.raised) =>
        /\ call.outcome = "returned"
        /\ DatesOf(call.result) = DatesOf(BeforeRows) \cup DatesOf(SourceRows)
        /\ CallFile.exists
        /\ DatesOf(StoredRows) = DatesOf(BeforeRows) \cup DatesOf(SourceRows)
        /\ \A d \in DatesOf(BeforeRows) \ DatesOf(SourceRows) :
             ValuesAt(call.result, d) = ValuesAt(BeforeRows, d)

\* C3: with a cache whose last date is on or after the effective end date and
\* refresh false, the call downloads nothing, returns the whole cached series
\* and leaves the file as it was.
CacheSkipCorrect ==
    (Called /\ ~call.refresh /\ CacheCovers) =>
        /\ call.fetches = 0
        /\ call.outcome = "returned"
        /\ call.result = BeforeRows
        /\ CallFile = call.before

\* C3 witness: a skipped download whose cache runs past the explicit end.
CacheSkipSeen ==
    /\ Called /\ ~call.refresh /\ CacheCovers
    /\ call.end # None /\ LastDate(BeforeRows) > EffectiveEnd
    /\ Len(call.result) = Len(BeforeRows)

\* C4: with refresh false and an explicit end, a call over a cache returns
\* without a download only if the cache's last date is on or after that end;
\* a cache that ends before the end makes the call download.
NoStaleSkip ==
    (Called /\ ~call.refresh /\ call.end # None /\ HasCache) =>
        /\ call.fetches = 0 => LastDate(BeforeRows) >= call.end[1]
        /\ LastDate(BeforeRows) < call.end[1] => call.fetches = 1

\* C5: when a download is needed (refresh, or the cache ends before the
\* effective end), the cache is non-empty and the download raises, the call
\* returns the cached series.
FetchFailureFallback ==
    (Called /\ (call.refresh \/ ~CacheCovers) /\ HasCache /\ call.source.raised) =>
        /\ call.outcome = "returned"
        /\ call.result = BeforeRows

\* C6: with refresh true the download is made even when the cache covers the
\* window, and on every date of the downloaded frame the returned series holds
\* the downloaded close.
RefreshForcesDownload ==
    (Called /\ call.refresh) =>
        /\ call.fetches = 1
        /\ ~call.source.raised =>
             /\ call.outcome = "returned"
             /\ \A d \in DatesOf(SourceRows) :
                  ValuesAt(call.result, d) = ValuesAt(SourceRows, d)

\* C6 witness: a refresh over a cache that covers the window, restating a date.
RefreshSeen ==
    /\ Called /\ call.refresh /\ CacheCovers /\ FetchSucceeded
    /\ \E d \in Overlap : Restated(d)

\* C7: a call never removes a date from the ticker's cache file.
AppendOnlyHistory ==
    (Called /\ call.before.exists) =>
        /\ CallFile.exists
        /\ DatesOf(BeforeRows) \subseteq DatesOf(StoredRows)

\* C8: writing the same downloaded frame a second time gives the same file and
\* the same series as the first time; a download that returns what the file
\* already holds leaves the file unchanged.
MergeIdempotent ==
    (Called /\ FetchSucceeded) =>
        /\ StoredAfterFetch(CallFile, SourceRows) = CallFile
        /\ ReturnedAfterFetch(CallFile, SourceRows) = call.result
        /\ (call.before.exists /\ BeforeRows = SourceRows) => CallFile = call.before

\* C8 witness: a download over an existing cache that changed the file.
MergeSeen ==
    /\ Called /\ FetchSucceeded /\ call.before.exists
    /\ SourceRows # <<>> /\ CallFile # call.before

\* C9: after a call that wrote the cache, the returned series and the stored
\* file have strictly ascending dates.
MergeMonotonic ==
    (Called /\ FetchSucceeded) =>
        /\ StrictlyAscending(call.result)
        /\ StrictlyAscending(StoredRows)

\* C10: with no cache file and a download that succeeds, the call returns the
\* downloaded series and leaves a cache file holding exactly its rows.
FirstRunCreatesCache ==
    (Called /\ ~call.before.exists /\ ~call.source.raised) =>
        /\ call.fetches = 1
        /\ call.outcome = "returned"
        /\ call.result = SourceRows
        /\ CallFile.exists
        /\ read_csv(CallFile) = SourceRows

\* C10 witness: a first run that downloaded a frame of two rows.
FirstRunSeen ==
    /\ Called /\ ~call.before.exists /\ FetchSucceeded
    /\ Len(SourceRows) = 2 /\ CallFile.exists

\* C11: in every state, also after a cache write that was stopped part-way,
\* the ticker's file is the complete record from before the call or the
\* complete record of the download.
CacheWriteAtomic ==
    Called =>
        \/ CallFile = call.before
        \/ CallFile = StoredAfterFetch(call.before, SourceRows)

----------------------------------------------------------------------------
(* Properties of one _try_load_candidates call *)

Resolving == res.state # "idle"
Resolved == res.state \in {"returned", "absent", "raised"}
Accepted(a) == a.outcome = "returned" /\ dropna(a.rows) # <<>>
MalformedBefore(a) == a.before.exists /\ ~WellFormed(a.before)

\* C12: a candidate whose cache file does not parse ends the call with an
\* error: its file is not downloaded over, no later candidate is tried and
\* the call does not return a series or absent.
MalformedCacheFatal ==
    Resolving =>
        \A i \in DOMAIN res.attempts :
            MalformedBefore(res.attempts[i]) =>
                /\ res.state = "raised"
                /\ i = Len(res.attempts)
                /\ res.attempts[i].fetches = 0
                /\ res.attempts[i].after = res.attempts[i].before

\* C13: with no candidates the call raises when required and returns absent
\* when not, and no cache file was read or written and nothing downloaded.
EmptyCandidates ==
    (Resolving /\ res.candidates = <<>>) =>
        /\ res.state = IF res.required THEN "raised" ELSE "absent"
        /\ res.attempts = <<>>
        /\ call = NoCall
        /\ cache = res.cache0

\* C13 witness: a required series without candidates has raised.
EmptyCandidatesSeen ==
    /\ Resolving /\ res.candidates = <<>> /\ res.required
    /\ res.state = "raised"

\* C14: candidates are tried in list order, each once; the call returns the
\* series of the first one whose load does not raise and is not empty once
\* missing values are dropped, and tries none after it.
FallbackOrder ==
    Resolving =>
        LET k == Len(res.attempts) IN
        /\ k <= Len(res.candidates)
        /\ \A i \in 1..k : res.attempts[i].ticker = res.candidates[i]
        /\ \A i \in 1..(k - 1) : ~Accepted(res.attempts[i])
        /\ res.state = "running" => k = res.pos - 1
        /\ res.state = "returned" =>
              /\ k >= 1
              /\ Accepted(res.attempts[k])
              /\ res.result = [name |-> res.name, rows |-> res.attempts[k].rows]
        /\ res.state \in {"absent", "raised"} =>
              /\ k = Len(res.candidates)
              /\ k >= 1 => ~Accepted(res.attempts[k])

\* C14 witness: the first candidate raised and the second one's series was
\* returned, after two attempts.
FallbackSeen ==
    /\ res.state = "returned" /\ Len(res.attempts) = 2
    /\ res.attempts[1].outcome = "raised"
    /\ res.candidates[1] # res.candidates[2]

\* C15: when every candidate raised or gave an empty series, the call raises
\* if required and returns absent if not; a required series is never absent
\* and an optional one never raises.
AllCandidatesFailed ==
    Resolved =>
        /\ res.required => res.state # "absent"
        /\ ~res.required => res.state # "raised"
        /\ (/\ res.candidates # <<>>
            /\ Len(res.attempts) = Len(res.candidates)
            /\ \A i \in DOMAIN res.attempts : ~Accepted(res.attempts[i])) =>
              res.state = IF res.required THEN "raised" ELSE "absent"

\* C15 witness: an optional series whose two candidates failed, one by an
\* exception and one by an empty series, came back absent.
AllFailedSeen ==
    /\ res.state = "absent" /\ Len(res.attempts) = 2
    /\ \E i, j \in 1..2 :
         /\ res.attempts[i].outcome = "raised"
         /\ res.attempts[j].outcome = "returned"

----------------------------------------------------------------------------
(* Properties of one walkforward_logistic_probabilities call *)

Walking == wf.state # "idle"
FitAttempted(e) == e.outcome \in {"fitted", "fit_raised", "predict_raised"}
WfLog == IF Walking THEN {wf.log[k] : k \in DOMAIN wf.log} ELSE {}

\* C16: at every boundary where a model is fitted, each training row is dated
\* on or before the boundary and has a label; no row of the boundary's
\* predict window and no row without a label is in the training set.
NoLookAheadTraining ==
    \A e \in WfLog :
        FitAttempted(e) =>
            /\ \A t \in e.train : t <= e.b /\ wf.y[t] \in Labels
            /\ e.train \cap e.window = {}
            /\ \A d \in wf.idx : wf.y[d] = NaN => d \notin e.train

\* C16 witness: a model was fitted while a row dated before the boundary had
\* no label and rows were waiting in the predict window.
NoLookAheadSeen ==
    \E e \in WfLog :
        /\ e.outcome = "fitted"
        /\ \E d \in wf.idx : d <= e.b /\ wf.y[d] = NaN
        /\ e.window # {}

\* C18: when the labelled rows up to a boundary hold one class only, no model
\* is fitted there and every date of its predict window is missing.
ClassBalanceGate ==
    \A e \in WfLog :
        LET known == {d \in wf.idx : d <= e.b /\ wf.y[d] \in Labels} IN
        (\/ \A d \in known : wf.y[d] = "0"
         \/ \A d \in known : wf.y[d] = "1") =>
            /\ ~FitAttempted(e)
            /\ \A d \in wf.idx : (d > e.b /\ d <= e.b + MonthLen) => wf.probs[d] = None

\* C18 witness: a call returned after a boundary with labelled rows of one
\* class and a non-empty predict window was skipped for that reason.
ClassBalanceSeen ==
    /\ Walking /\ wf.state = "returned"
    /\ \E e \in WfLog : e.outcome = "one_class" /\ e.window # {} /\ e.train # {}

\* The boundary owning a date: the last month end before it.
Owner(d) == ((d - 1) \div MonthLen) * MonthLen
GatesPass(b) ==
    LET known == {d \in wf.idx : d <= b /\ wf.y[d] \in Labels} IN
    /\ known # {}
    /\ \E d \in known : d <= b - wf.minDays
    /\ \E c, d \in known : wf.y[c] # wf.y[d]

\* C19: a date has a probability exactly when the boundary owning its predict
\* window passed both gates and was fitted, and the value comes from that
\* boundary's model; a skipped boundary's window stays missing.
NoCarryForward ==
    Walking =>
        \A d \in wf.idx :
            /\ wf.probs[d] # None <=>
                  \E e \in WfLog : e.b = Owner(d) /\ e.outcome = "fitted"
            /\ wf.probs[d] # None => wf.probs[d] = Some(Owner(d)) /\ GatesPass(Owner(d))
            /\ \A e \in WfLog :
                  (e.b = Owner(d) /\ e.outcome # "fitted") => wf.probs[d] = None

\* C19 witness: a call returned with a skipped boundary whose window is
\* missing and a later fitted boundary whose window is filled.
NoCarryForwardSeen ==
    /\ Walking /\ wf.state = "returned"
    /\ \E e, f \in WfLog :
         /\ e.b < f.b
         /\ e.outcome \in {"no_history", "one_class"} /\ e.window # {}
         /\ \A d \in e.window : wf.probs[d] = None
         /\ f.outcome = "fitted"
         /\ \A d \in f.window : wf.probs[d] = Some(f.b)

\* C20: a fit that fails for a reason other than the two gates does not make
\* the call raise; the boundary is skipped and later boundaries are processed.
FitFailureIsSkip ==
    \A e \in WfLog : e.outcome = "fit_raised" => wf.state # "raised"

\* C17: in the pipeline, at every boundary where a model is fitted, the
\* outcome window of each training row, the row and the h rows after it, ends
\* on or before the boundary.
LabelWindowsElapsed ==
    \A e \in WfLog :
        e.outcome = "fitted" =>
            \A t \in e.train :
                /\ Pos(wf.idx, t) + wf.h <= Cardinality(wf.idx)
                /\ DateAt(wf.idx, Pos(wf.idx, t) + wf.h) <= e.b

\* C21: with an empty index the call does not raise, processes no boundary
\* and returns a timeline over that index with no entry.
EmptyIndexReturns ==
    (Walking /\ wf.idx = {}) =>
        /\ wf.state \in {"running", "returned"}
        /\ wf.log = <<>>
        /\ DOMAIN wf.probs = {} /\ DOMAIN wf.p = {}

\* C21 witness: a call on an empty index has returned.
EmptyIndexSeen == Walking /\ wf.idx = {} /\ wf.state = "returned"

\* C22: every probability in the timeline is between 0 and 1 (in
\* thousandths) and the timeline is indexed by the index of X.
ProbabilityBounds ==
    Walking =>
        /\ DOMAIN wf.p = wf.idx
        /\ \A d \in wf.idx :
              /\ wf.p[d] # None => (wf.p[d][1] >= 0 /\ wf.p[d][1] <= 1000)
              /\ wf.p[d] # None <=> wf.probs[d] # None

\* C22 witness: a returned timeline holds a probability below one half and
\* a missing entry.
ProbabilitySeen ==
    /\ Walking /\ wf.state = "returned"
    /\ \E d, e \in wf.idx :
         /\ wf.p[d] # None /\ wf.p[d][1] < 500
         /\ wf.p[e] = None

\* C26: a model is fitted at a boundary only when the earliest training row
\* is dated at least the required history before the boundary; otherwise,
\* also with no training row at all, nothing is fitted and every date of the
\* boundary's predict window is missing.
MinimumHistoryGate ==
    \A e \in WfLog :
        LET known == {d \in wf.idx : d <= e.b /\ wf.y[d] \in Labels}
            enough == known # {} /\ \E d \in known : d + wf.minDays <= e.b
        IN /\ FitAttempted(e) => enough
           /\ ~enough =>
                 /\ ~FitAttempted(e)
                 /\ \A d \in wf.idx :
                       (d > e.b /\ d <= e.b + MonthLen) =>
                           wf.probs[d] = None /\ wf.p[d] = None

\* C26 witness: a call returned after a boundary was skipped for want of
\* history although its training rows held both classes and rows were
\* waiting in its predict window.
MinimumHistorySeen ==
    /\ Walking /\ wf.state = "returned"
    /\ \E e \in WfLog :
         /\ e.outcome = "no_history" /\ e.window # {}
         /\ \E c, d \in e.train : wf.y[c] # wf.y[d]

\* C27: the predict window of boundary i holds the index dates after it up to
\* the next boundary, or up to the last index date for the last boundary;
\* windows of different boundaries are disjoint; once the call has returned
\* they cover every index date after the first boundary, and dates on or
\* before the first boundary are in no window and stay missing.
PredictWindowsPartition ==
    Walking =>
        LET rd == RetrainDates(wf.idx)
            n == Len(wf.log)
        IN /\ n <= Len(rd)
           /\ \A i \in 1..n :
                 /\ wf.log[i].b = rd[i]
                 /\ wf.log[i].window =
                       {d \in wf.idx :
                           /\ d > rd[i]
                           /\ IF i < Len(rd) THEN d <= rd[i + 1]
                              ELSE \A e \in wf.idx : d >= e}
           /\ \A i, j \in 1..n :
                 i # j => wf.log[i].window \cap wf.log[j].window = {}
           /\ wf.state = "returned" =>
                 /\ n = Len(rd)
                 /\ \A d \in wf.idx :
                       d > rd[1] <=> \E i \in 1..n : d \in wf.log[i].window
           /\ \A d \in wf.idx :
                 d <= rd[1] =>
                     /\ wf.probs[d] = None
                     /\ \A i \in 1..n : d \notin wf.log[i].window

\* C27 witness: a call returned with two boundaries that had rows in their
\* predict windows and a row dated on or before the first boundary.
PredictWindowsSeen ==
    /\ Walking /\ wf.state = "returned"
    /\ \E i, j \in DOMAIN wf.log :
         i < j /\ wf.log[i].window # {} /\ wf.log[j].window # {}
    /\ \E d \in wf.idx : d <= RetrainDates(wf.idx)[1]

----------------------------------------------------------------------------
(* Properties of calls for several tickers on one cache directory *)

\* C23: a call for one ticker uses a cache record that belongs to no other
\* ticker string, and leaves the record of every other ticker as it was.
CrossTickerIsolation ==
    (Called /\ res.state = "direct") =>
        \A B \in IsoTickers :
            B # call.ticker =>
                /\ cache_path(B) # cache_path(call.ticker)
                /\ cache[cache_path(B)] = res.cache0[cache_path(B)]

----------------------------------------------------------------------------
(* Further properties of one load_or_download_series call *)

\* C28: without refresh, a cache record with rows whose last date is before
\* the end asked for leads to a download, and that download starts no
\* earlier than the last cached date.
IncrementalFetchWindow ==
    (Called /\ ~call.refresh /\ CacheStale) =>
        /\ call.fetches = 1
        /\ FetchStart(ConfigStart, BeforeRows) >= LastDate(BeforeRows)

\* C29: when the download raises, the ticker's cache file after the call is
\* the file from before the call, and none is created where none was.
FetchErrorLeavesCache ==
    (Called /\ call.fetches = 1 /\ call.source.raised) =>
        /\ CallFile = call.before
        /\ ~call.before.exists => ~CallFile.exists

\* C29 witness: a refresh over a cache file with rows met a source error.
FetchErrorSeen ==
    /\ Called /\ call.fetches = 1 /\ call.source.raised
    /\ call.refresh /\ HasCache /\ call.outcome = "raised"

----------------------------------------------------------------------------
(* Properties of the helper functions *)

LabelOrder ==
    <<"oversold_panic", "bearish_below_trend", "neutral_fair_vs_trend",
      "bullish_overboughtish", "euphoric_very_overbought">>
LabelRank(l) == CHOOSE i \in DOMAIN LabelOrder : LabelOrder[i] = l

\* C24: a score below 20 is oversold_panic, from 20 to below 40
\* bearish_below_trend, from 40 to below 60 neutral_fair_vs_trend, from 60 to
\* below 80 bullish_overboughtish and from 80 on euphoric_very_overbought;
\* each score has one label and a higher score never has a lower label.
ScoreBands ==
    fn.op = "score_to_label" =>
        /\ fn.score < 20000 <=> fn.label = "oversold_panic"
        /\ (fn.score >= 20000 /\ fn.score < 40000) <=> fn.label = "bearish_below_trend"
        /\ (fn.score >= 40000 /\ fn.score < 60000) <=> fn.label = "neutral_fair_vs_trend"
        /\ (fn.score >= 60000 /\ fn.score < 80000) <=> fn.label = "bullish_overboughtish"
        /\ fn.score >= 80000 <=> fn.label = "euphoric_very_overbought"
        /\ \E i \in DOMAIN LabelOrder : fn.label = LabelOrder[i]
        /\ (fn.prev # <<>> /\ fn.prev[1] <= fn.score) =>
              LabelRank(fn.prev[2]) <= LabelRank(fn.label)

\* C24 witness: the score just under 20 was labelled oversold_panic and then
\* the score 20 bearish_below_trend.
ScoreBandsSeen ==
    /\ fn.op = "score_to_label" /\ fn.prev # <<>>
    /\ fn.prev = <<19999, "oversold_panic">>
    /\ fn.score = 20000 /\ fn.label = "bearish_below_trend"

\* The cell of column c at date d in a table.
CellAt(df, c, d) ==
    LET r == df[CHOOSE i \in DOMAIN df : df[i].date = d]
    IN IF c = "a" THEN r.a ELSE r.b

\* C25: the aligned table has the rows of the input in date order; an
\* observed cell is unchanged; a missing cell holds the column's most recent
\* earlier observed value exactly when it is among the first
\* max_forward_fill_days missing rows after that observation, and is missing
\* otherwise; nothing is filled from a later date.
ForwardFillLimit ==
    fn.op = "align_series" =>
        LET in == fn.series_map
            out == fn.out
            dates == {in[i].date : i \in DOMAIN in}
        IN /\ Len(out) = Len(in)
           /\ {out[i].date : i \in DOMAIN out} = dates
           /\ \A i \in 1..(Len(out) - 1) : out[i].date < out[i + 1].date
           /\ \A c \in AlignCols, d \in dates :
                 LET earlier == {e \in dates : e < d /\ CellAt(in, c, e) # None} IN
                 IF CellAt(in, c, d) # None
                 THEN CellAt(out, c, d) = CellAt(in, c, d)
                 ELSE IF earlier = {} THEN CellAt(out, c, d) = None
                 ELSE LET m == CHOOSE e \in earlier : \A x \in earlier : x <= e
                          gap == Cardinality({e \in dates : m < e /\ e <= d})
                      IN CellAt(out, c, d) =
                             IF fn.limit > 0 /\ gap <= fn.limit
                             THEN CellAt(in, c, m) ELSE None

\* C25 witness: with a limit of 1 and rows given out of date order, a column
\* observed on the first date and missing on the next two was filled on the
\* second date only, while the other column was filled from a different date.
ForwardFillSeen ==
    /\ fn.op = "align_series" /\ fn.limit = 1 /\ Len(fn.out) = 3
    /\ fn.series_map[1].date # 1
    /\ CellAt(fn.series_map, "a", 2) = None /\ CellAt(fn.series_map, "a", 3) = None
    /\ CellAt(fn.out, "a", 2) = Some(1) /\ CellAt(fn.out, "a", 3) = None
    /\ CellAt(fn.out, "b", 3) = Some(2) /\ CellAt(fn.series_map, "b", 3) = None

\* C30: the list made from a configuration value holds only tickers that are
\* not blank: nothing for None, the string itself for a string, and for a
\* list its scalar entries that are not blank, in their order.
CandidatesNormalized ==
    fn.op = "_as_candidates" =>
        /\ \A i \in DOMAIN fn.out : Strip(fn.out[i]) # <<>>
        /\ fn.v.kind = "none" => fn.out = <<>>
        /\ fn.v.kind = "str" => fn.out = <<fn.v.s>>
        /\ fn.v.kind = "list" =>
              LET keep == {i \in DOMAIN fn.v.items :
                              fn.v.items[i].scalar /\ Strip(fn.v.items[i].text) # <<>>}
              IN /\ Len(fn.out) = Cardinality(keep)
                 /\ \A i \in keep :
                       fn.out[Cardinality({j \in keep : j <= i})] = fn.v.items[i].text

====
